---- MODULE Spec2Model ----
(***************************************************************************)
(* Model of the ops-butler task orchestration engine:                      *)
(*   - the agent task runtime (internal/agent/agent.go): the in-memory     *)
(*     registry of Task objects, ExecuteTask with its execution goroutine, *)
(*     its context deadline and working directory, GetTaskStatus and      *)
(*     CancelTask under tasksMutex;                                        *)
(*   - the scheduler (internal/scheduler/scheduler.go): the due-task loop, *)
(*     the reminder-delivery loop, ScheduleTask and CancelTask, over the   *)
(*     task and reminder tables (internal/database/*_repository.go);       *)
(*   - the API server's task handlers (internal/api/server.go);            *)
(*   - the chat client's handler of interactive components                 *)
(*     (internal/chatops/slack.go).                                        *)
(* The agent and the scheduler/server share no state in the source: the    *)
(* agent is checked under SpecAgent (SpecAgentFair for liveness,           *)
(* SpecAgentStop with Start and Stop), the scheduler under Spec and        *)
(* SpecClock, with the chat handler under SpecChat, the server's handlers  *)
(* under SpecServer. Smaller specifications take the actions a property    *)
(* is about: SpecLoopsClock, SpecSchedStop, SpecLoops, SpecCancelRace,     *)
(* and, with fairness, SpecDueLoopFair and SpecRemLoopFair.                *)
(***************************************************************************)
EXTENDS Integers, Sequences, FiniteSets, TLC

\* ---------------------------------------------------------------- bounds
MaxNow == 1        \* the clock runs over 0..MaxNow
MaxExecs == 2      \* Task objects the agent allocates in one run
MaxTasks == 2      \* rows of the task table
MaxReminders == 2  \* rows of the reminder table
MaxHeartbeats == 1 \* heartbeats the server answered that the model counts

TaskIds == 1..MaxTasks
AgentTaskIds == {"t1", "t2"}   \* the task ids (strings) sent to the agent
Times == 0..MaxNow
NoTime == -1       \* a nil *time.Time, or the zero time.Time

VARIABLES
    now,            \* time.Now()
    \* ---- agent (agent.go)
    heap,           \* the Task objects allocated by ExecuteTask, in order
    agentTasks,     \* Agent.tasks: task id -> index into heap, 0 when absent
    ret,            \* the last return of an agent API call
    dirs,           \* task ids whose working directory /tmp/ops-butler-task-<id> exists
    tasksMutex,     \* Agent.tasksMutex: 0 when free, else the holder
    agent,          \* Agent.conn, agentID, stopCh, the heartbeat goroutine, Start and Stop
    \* ---- repository (the database tables)
    taskRows,       \* task_instances, row i has ID i
    reminderRows,   \* reminders, row i has ID i
    \* ---- scheduler configuration and the two loops
    maxConcurrentTasks, \* Config.MaxConcurrentTasks
    scheduler,          \* Scheduler.stopCh, redis, the two loop goroutines, Stop
    signals,            \* task ids for which the scheduler sent an agent a cancellation
    chatSent,           \* the calls of chatops.Service.SendReminderMessage made so far
    interaction,        \* the last interactive component the chat client handled
    duePc, dueBatch, dueIdx,   \* pollTasks / checkDueTasks: position, batch, loop index
    dueSeen,            \* task ids createReminder was called for in this tick
    dueCreated,         \* ids of the reminder rows this tick created
    remPc, remBatch, remIdx,   \* processReminders / checkDueReminders
    remSeen             \* reminder ids the loop body ran for in this tick

agentVars == <<heap, agentTasks, ret, dirs, tasksMutex, agent>>
dbVars == <<taskRows, reminderRows>>
dueVars == <<duePc, dueBatch, dueIdx, dueSeen, dueCreated>>
remVars == <<remPc, remBatch, remIdx, remSeen>>
chatVars == <<chatSent, interaction>>
schedVars == <<taskRows, reminderRows, maxConcurrentTasks, scheduler, signals, chatSent, interaction,
               duePc, dueBatch, dueIdx, dueSeen, dueCreated,
               remPc, remBatch, remIdx, remSeen>>
vars == <<now, heap, agentTasks, ret, dirs, tasksMutex, agent, taskRows, reminderRows,
          maxConcurrentTasks, scheduler, signals,
          chatSent, interaction,
          duePc, dueBatch, dueIdx, dueSeen, dueCreated, remPc, remBatch, remIdx, remSeen>>

\* ===================================================================
\* Agent task runtime
\* ===================================================================

\* Exit codes a script can end with; KilledExit is exec.ExitError.ExitCode()
\* of a process ended by the context's kill signal.
ExitCodes == {0, 1, 2}
KilledExit == -1

\* timeout (seconds) of an ExecuteTask request
Timeouts == {-1, 0, 1}

ErrCancelled == "Task cancelled by user"
InfraErrors == {"Failed to create temp directory", "Failed to write script file",
                "Failed to create stdout pipe", "Failed to create stderr pipe",
                "Failed to start command"}

\* ExitError when the completion update reuses the message of the failed start.
ExitErrorAsStartFailure(code) == "Failed to start command"

\* fmt.Sprintf("Command exited with code %d", exitCode)
ExitError(code) ==
    CASE code = 1 -> "Command exited with code 1"
      [] code = 2 -> "Command exited with code 2"
      [] code = KilledExit -> "Command exited with code -1"
      [] OTHER -> "Command exited with code ?"

\* &Task{ID, Script, Params, Status: "running", StartTime: time.Now(), Cancel}
\* ctxDone is the state of the context behind Cancel; pc is the position of
\* the execution goroutine: "setup" before cmd.Start, "wait" while the
\* process runs, "done" after the goroutine returned.
\* Deadline is the deadline of the context: context.WithTimeout when
\* timeout > 0, none otherwise.
NewTask(id, timeout) ==
    [ID |-> id, Status |-> "running", StartTime |-> now, EndTime |-> NoTime,
     ExitCode |-> 0, Error |-> "", ctxDone |-> FALSE, pc |-> "setup",
     Deadline |-> IF timeout > 0 THEN now + timeout ELSE NoTime]

NoRet == [op |-> "none", id |-> "", err |-> FALSE]

\* NewAgent: no connection, no agent id, stopCh open, no goroutine;
\* heartbeats counts the heartbeat requests the server answered with 200.
NewAgent ==
    [conn |-> "nil", agentID |-> "", stopCh |-> "open", heartbeatLoop |-> FALSE,
     heartbeats |-> 0, Start |-> "none", Stop |-> "none"]

InitAgent ==
    /\ heap = <<>>
    /\ agentTasks = [id \in AgentTaskIds |-> 0]
    /\ ret = NoRet
    /\ dirs = {}
    /\ tasksMutex = 0
    /\ agent = NewAgent

\* a.tasks[taskID], ok
Known(id) == agentTasks[id] # 0
Record(id) == heap[agentTasks[id]]

\* Agent.ExecuteTask: allocates the Task, stores it under taskID whatever the
\* map holds, starts the goroutine and returns nil.
ExecuteTask(id, timeout) ==
    /\ Len(heap) < MaxExecs
    /\ tasksMutex = 0
    /\ heap' = Append(heap, NewTask(id, timeout))
    /\ agentTasks' = [agentTasks EXCEPT ![id] = Len(heap) + 1]
    /\ ret' = [op |-> "ExecuteTask", id |-> id, err |-> FALSE]
    /\ UNCHANGED <<now, dirs, tasksMutex, agent, schedVars>>

\* The goroutine fails before the process runs (MkdirAll, WriteFile,
\* StdoutPipe, StderrPipe, cmd.Start) and returns.
\* os.MkdirAll is the first of them: when it fails there is no directory, when
\* a later call fails the directory is there and is not removed.
ExecInfraFail(e, msg) ==
    /\ heap[e].pc = "setup"
    /\ tasksMutex = 0
    /\ dirs' = IF msg = "Failed to create temp directory" THEN dirs
               ELSE dirs \cup {heap[e].ID}
    /\ heap' = [heap EXCEPT ![e] = [@ EXCEPT !.Status = "failed", !.EndTime = now,
                                             !.ExitCode = 1, !.Error = msg,
                                             !.pc = "done", !.ctxDone = TRUE]]
    /\ UNCHANGED <<now, agentTasks, ret, tasksMutex, agent, schedVars>>

\* ExecStart when the goroutine takes tasksMutex before it runs the script
\* and releases it with its final write.
ExecStartHoldingMutex(e) ==
    /\ heap[e].pc = "setup"
    /\ tasksMutex = 0
    /\ heap' = [heap EXCEPT ![e].pc = "wait"]
    /\ dirs' = dirs \cup {heap[e].ID}
    /\ tasksMutex' = e
    /\ UNCHANGED <<now, agentTasks, ret, agent, schedVars>>

\* MkdirAll, WriteFile, the pipes and cmd.Start succeeded: the directory
\* exists and the process runs.
ExecStart(e) ==
    /\ heap[e].pc = "setup"
    /\ heap' = [heap EXCEPT ![e].pc = "wait"]
    /\ dirs' = dirs \cup {heap[e].ID}
    /\ UNCHANGED <<now, agentTasks, ret, tasksMutex, agent, schedVars>>

\* The status the goroutine writes after cmd.Wait returned exitCode.
StatusAfterWait(old, exitCode) == IF exitCode # 0 THEN "failed" ELSE "completed"

\* io.ReadAll and cmd.Wait return with exitCode; the goroutine writes the
\* result into its Task object under the lock, removes the directory
\* (os.RemoveAll) and returns (defer cancel()).
ExecFinish(e, exitCode) ==
    /\ heap[e].pc = "wait"
    /\ exitCode = KilledExit => heap[e].ctxDone
    /\ tasksMutex = 0
    /\ dirs' = dirs \ {heap[e].ID}
    /\ heap' = [heap EXCEPT ![e] =
                  [@ EXCEPT !.Status = StatusAfterWait(heap[e].Status, exitCode),
                            !.EndTime = now,
                            !.ExitCode = exitCode,
                            !.Error = IF exitCode # 0 THEN ExitError(exitCode) ELSE @,
                            !.pc = "done", !.ctxDone = TRUE]]
    /\ UNCHANGED <<now, agentTasks, ret, tasksMutex, agent, schedVars>>

\* AgentCancelTask without the `task.Status != "running"` return.
AgentCancelTaskNoStatusCheck(id) ==
    /\ tasksMutex = 0
    /\ ret' = [op |-> "CancelTask", id |-> id, err |-> ~Known(id)]
    /\ IF Known(id)
       THEN heap' = [heap EXCEPT ![agentTasks[id]] =
                       [@ EXCEPT !.ctxDone = TRUE, !.Status = "cancelled",
                                 !.EndTime = now, !.Error = ErrCancelled]]
       ELSE heap' = heap
    /\ UNCHANGED <<now, agentTasks, dirs, tasksMutex, agent, schedVars>>

\* Agent.CancelTask
AgentCancelTask(id) ==
    /\ tasksMutex = 0
    /\ ret' = [op |-> "CancelTask", id |-> id,
               err |-> (~Known(id) \/ Record(id).Status # "running")]
    /\ IF Known(id) /\ Record(id).Status = "running"
       THEN heap' = [heap EXCEPT ![agentTasks[id]] =
                       [@ EXCEPT !.ctxDone = TRUE, !.Status = "cancelled",
                                 !.EndTime = now, !.Error = ErrCancelled]]
       ELSE heap' = heap
    /\ UNCHANGED <<now, agentTasks, dirs, tasksMutex, agent, schedVars>>

\* Agent.GetTaskStatus: under the read lock, the Task the registry holds for
\* taskID, or the "task not found" error.
GetTaskStatus(id) ==
    /\ tasksMutex = 0
    /\ ret' = [op |-> "GetTaskStatus", id |-> id, err |-> ~Known(id),
               task |-> agentTasks[id]]
    /\ UNCHANGED <<now, heap, agentTasks, dirs, tasksMutex, agent, schedVars>>

\* DeadlineFires when the context is built with context.WithCancel alone:
\* no timer is armed.
DeadlineNotArmed(e) ==
    /\ heap[e].Deadline # NoTime /\ now >= heap[e].Deadline
    /\ ~heap[e].ctxDone
    /\ UNCHANGED vars

\* The timer of context.WithTimeout fires: the context is done, and
\* exec.CommandContext kills the process if it runs.
DeadlineFires(e) ==
    /\ heap[e].Deadline # NoTime /\ now >= heap[e].Deadline
    /\ ~heap[e].ctxDone
    /\ heap' = [heap EXCEPT ![e].ctxDone = TRUE]
    /\ UNCHANGED <<now, agentTasks, ret, dirs, tasksMutex, agent, schedVars>>

\* time passes
Tick ==
    /\ now < MaxNow
    /\ now' = now + 1
    /\ UNCHANGED <<agentVars, schedVars>>

NextAgent ==
    \/ \E id \in AgentTaskIds, timeout \in Timeouts : ExecuteTask(id, timeout)
    \/ \E e \in 1..Len(heap), msg \in InfraErrors : ExecInfraFail(e, msg)
    \/ \E e \in 1..Len(heap) : ExecStart(e)
    \/ \E e \in 1..Len(heap), c \in ExitCodes \cup {KilledExit} : ExecFinish(e, c)
    \/ \E id \in AgentTaskIds : AgentCancelTask(id)
    \/ \E id \in AgentTaskIds : GetTaskStatus(id)
    \/ \E e \in 1..Len(heap) : DeadlineFires(e)
    \/ Tick

\* ===================================================================
\* Repository: the task and reminder tables
\* ===================================================================
TaskStatePending == "pending"
TaskStateScheduled == "scheduled"
TaskStateRunning == "running"
TaskStateCompleted == "completed"
TaskStateFailed == "failed"
TaskStateCancelled == "cancelled"
TaskStates == {TaskStatePending, TaskStateScheduled, TaskStateRunning,
               TaskStateCompleted, TaskStateFailed, TaskStateCancelled}

ReminderStatePending == "pending"
ReminderStateDelivered == "delivered"
ReminderStateActioned == "actioned"
ReminderStateCancelled == "cancelled"

TaskTypeCheckLogs == "check_logs"

\* What a task carries for handleExecuteTask: its TaskType and the keys of
\* Params that hold a string.
TaskKinds ==
    { [TaskType |-> "", Params |-> {}],
      [TaskType |-> TaskTypeCheckLogs, Params |-> {"podName"}],
      [TaskType |-> TaskTypeCheckLogs, Params |-> {"podName", "chatType", "chatId"}] }

\* The states a create request carries ("" when the field is absent).
RequestStates == {"", TaskStateRunning, TaskStateCompleted}

\* "limit <= 0 -> 10" of the list queries
DefaultLimit == 10
\* The values of SCHEDULER_MAX_CONCURRENT_TASKS the model is run with.
ConfigLimits == {0, 1}

\* no interactive component handled yet
NoInteraction == [action |-> "none", reminder |-> 0]

\* The Scheduler after NewScheduler and Start (cmd/scheduler/main.go calls
\* one after the other): Redis connected, stopCh open, both loop goroutines
\* running, Stop not called.
StartedScheduler ==
    [stopCh |-> "open", redis |-> "open", pollTasks |-> TRUE, processReminders |-> TRUE,
     Stop |-> "none"]

InitSched ==
    /\ scheduler = StartedScheduler
    /\ taskRows = <<>>
    /\ reminderRows = <<>>
    /\ maxConcurrentTasks \in ConfigLimits
    /\ signals = {}
    /\ chatSent = {} /\ interaction = NoInteraction
    /\ duePc = "idle" /\ dueBatch = <<>> /\ dueIdx = 0 /\ dueSeen = {} /\ dueCreated = {}
    /\ remPc = "idle" /\ remBatch = <<>> /\ remIdx = 0 /\ remSeen = {}

Init == now = 0 /\ InitAgent /\ InitSched

\* GetByID finds the row
TaskExists(id) == id \in 1..Len(taskRows)

\* All orderings of the set S as sequences without repetition.
Perms(S) ==
    {q \in [1..Cardinality(S) -> S] : \A i, j \in 1..Cardinality(S) : i # j => q[i] # q[j]}

\* Limit when the configured batch size is not applied to the query.
LimitIgnored(n) == DefaultLimit

\* ListDue / ListPending: `if limit <= 0 { limit = 10 }`
Limit(n) == IF n <= 0 THEN DefaultLimit ELSE n
Min(a, b) == IF a < b THEN a ELSE b

\* IsDue without the `state = 'pending'` condition.
IsDueAnyState(id) ==
    /\ taskRows[id].DueAt # NoTime
    /\ taskRows[id].DueAt <= now

\* WHERE state = 'pending' AND due_at <= now  (a NULL due_at never matches)
IsDue(id) ==
    /\ taskRows[id].State = TaskStatePending
    /\ taskRows[id].DueAt # NoTime
    /\ taskRows[id].DueAt <= now

\* ListDue when the query takes only the tasks that fall due at this very
\* moment (due_at = now) and so misses the overdue ones.
ListDueExactlyNow(limit) ==
    LET due == {id \in 1..Len(taskRows) : IsDue(id) /\ taskRows[id].DueAt = now}
        n == Min(Limit(limit), Cardinality(due))
    IN  UNION { Perms(S) : S \in {T \in SUBSET due : Cardinality(T) = n} }

\* GormTaskRepository.ListDue(ctx, 0, limit): up to Limit(limit) of the due
\* rows, in an order the query does not fix; each result is a copy of its row.
ListDue(limit) ==
    LET due == {id \in 1..Len(taskRows) : IsDue(id)}
        n == Min(Limit(limit), Cardinality(due))
    IN  UNION { Perms(S) : S \in {T \in SUBSET due : Cardinality(T) = n} }

TaskSnapshot(id) == [ID |-> id, row |-> taskRows[id]]

\* ListPending when the query asks for chat_at >= now and so misses the
\* reminders whose chat_at has elapsed.
ListPendingNotElapsed(limit) ==
    LET pend == {r \in 1..Len(reminderRows) :
                    /\ reminderRows[r].State = ReminderStatePending
                    /\ reminderRows[r].ChatAt >= now}
        n == Min(Limit(limit), Cardinality(pend))
        sorted == {q \in Perms(pend) :
                     \A i, j \in 1..Cardinality(pend) :
                        i < j => reminderRows[q[i]].ChatAt <= reminderRows[q[j]].ChatAt}
    IN  {SubSeq(q, 1, n) : q \in sorted}

\* GormReminderRepository.ListPending(ctx, 0, limit): WHERE state = 'pending'
\* ORDER BY chat_at LIMIT limit; rows with equal chat_at come in any order.
ListPending(limit) ==
    LET pend == {r \in 1..Len(reminderRows) : reminderRows[r].State = ReminderStatePending}
        n == Min(Limit(limit), Cardinality(pend))
        sorted == {q \in Perms(pend) :
                     \A i, j \in 1..Cardinality(pend) :
                        i < j => reminderRows[q[i]].ChatAt <= reminderRows[q[j]].ChatAt}
    IN  {SubSeq(q, 1, n) : q \in sorted}

\* GormReminderRepository.ListByTaskID
ListByTaskID(taskID) == {r \in 1..Len(reminderRows) : reminderRows[r].TaskID = taskID}

\* ===================================================================
\* API server: task handlers
\* ===================================================================

\* Server.handleCreateTask: the state of the request is kept, "" becomes
\* pending; due_at is stored as sent; Create can fail (500).
CreateTask(state, dueAt, kind) ==
    /\ Len(taskRows) < MaxTasks
    /\ \/ taskRows' = Append(taskRows,
                             [State |-> IF state = "" THEN TaskStatePending ELSE state,
                              DueAt |-> dueAt, Kind |-> kind])
       \/ taskRows' = taskRows
    /\ UNCHANGED <<now, agentVars, scheduler, reminderRows, maxConcurrentTasks, signals, chatVars, dueVars, remVars>>

\* The agents the server knows: the server has no route that registers an
\* agent or takes a heartbeat and no repository of ClusterAgent rows
\* (handleListAgents answers with a fixed list it builds on the spot), so no
\* request ever adds one.
RegisteredAgents == {}

\* The registered agents a dispatch at time t could use: those whose last
\* heartbeat is not older than the liveness window w.
LiveAgents(t, w) == {a \in RegisteredAgents : t - a.LastHeartbeat <= w}

\* Server.handleExecuteTask, by the way it returns.
\*  GetByID fails, or the task is no check_logs task, or it has no podName, or
\*  the first Update fails: the row is not written.
ExecuteTaskNoWrite(id) ==
    /\ UNCHANGED vars

\* the first Update succeeded; then the chatType/chatId assertion panics, or
\* the second Update fails: the row stays running.
ExecuteTaskLeftRunning(id) ==
    /\ TaskExists(id)
    /\ taskRows[id].Kind.TaskType = TaskTypeCheckLogs
    /\ "podName" \in taskRows[id].Kind.Params
    /\ taskRows' = [taskRows EXCEPT ![id].State = TaskStateRunning]
    /\ UNCHANGED <<now, agentVars, scheduler, reminderRows, maxConcurrentTasks, signals, chatVars, dueVars, remVars>>

\* both Updates succeeded: running, then completed.
ExecuteTaskCompleted(id) ==
    /\ TaskExists(id)
    /\ taskRows[id].Kind.TaskType = TaskTypeCheckLogs
    /\ {"podName", "chatType", "chatId"} \subseteq taskRows[id].Kind.Params
    /\ taskRows' = [taskRows EXCEPT ![id].State = TaskStateCompleted]
    /\ UNCHANGED <<now, agentVars, scheduler, reminderRows, maxConcurrentTasks, signals, chatVars, dueVars, remVars>>

handleExecuteTask(id) ==
    \/ ExecuteTaskNoWrite(id)
    \/ ExecuteTaskLeftRunning(id)
    \/ ExecuteTaskCompleted(id)

\* ===================================================================
\* Scheduler: the due-task loop (pollTasks -> checkDueTasks)
\* ===================================================================

\* LoopAfterTickError when a failed tick ends the loop.
LoopExitsOnTickError(running) == FALSE

\* Whether a loop goroutine still runs after its tick returned an error:
\* `if err := ...; err != nil { s.logger.Error(...) }`, then the next select.
LoopAfterTickError(running) == running

\* A tick of pollTasks starts and ListDue fails: checkDueTasks returns the
\* error, the loop logs it and waits for the next tick.
DueListFails ==
    /\ duePc = "idle"
    /\ scheduler.pollTasks
    /\ scheduler' = [scheduler EXCEPT !.pollTasks = LoopAfterTickError(@)]
    /\ UNCHANGED <<now, agentVars, dbVars, maxConcurrentTasks, signals, chatVars,
                   dueVars, remVars>>

\* A tick of pollTasks starts and ListDue returns the batch.
DueList ==
    /\ duePc = "idle"
    /\ scheduler.pollTasks
    /\ \E q \in ListDue(maxConcurrentTasks) :
         /\ dueBatch' = [i \in 1..Len(q) |-> TaskSnapshot(q[i])]
         /\ duePc' = "create" /\ dueIdx' = 1 /\ dueSeen' = {} /\ dueCreated' = {}
    /\ UNCHANGED <<now, agentVars, scheduler, dbVars, maxConcurrentTasks, signals, chatVars, remVars>>

\* DueAfterFailure when the loop stops at the first failure (`break`).
DueBreakOnFailure(i, n) == n + 1

\* The index of the loop after createReminder failed on item i of a batch
\* of n items (`continue`).
DueAfterFailure(i, n) == i + 1

\* DueCreateOk when the reminder is created for the task's due time instead
\* of the time of the tick.
DueCreateOkAtDueTime ==
    /\ duePc = "create" /\ dueIdx <= Len(dueBatch)
    /\ Len(reminderRows) < MaxReminders
    /\ dueSeen' = dueSeen \cup {dueBatch[dueIdx].ID}
    /\ reminderRows' = Append(reminderRows,
                              [TaskID |-> dueBatch[dueIdx].ID,
                               ChatAt |-> dueBatch[dueIdx].row.DueAt,
                               State |-> ReminderStatePending, CancelledAt |-> NoTime,
                               MessageID |-> ""])
    /\ dueCreated' = dueCreated \cup {Len(reminderRows) + 1}
    /\ duePc' = "update"
    /\ UNCHANGED <<now, agentVars, scheduler, taskRows, maxConcurrentTasks, signals, chatVars,
                   dueBatch, dueIdx, remVars>>

\* createReminder, first half: s.reminders.Create succeeds; the reminder row
\* exists and the task update follows.
DueCreateOk ==
    /\ duePc = "create" /\ dueIdx <= Len(dueBatch)
    /\ Len(reminderRows) < MaxReminders
    /\ dueSeen' = dueSeen \cup {dueBatch[dueIdx].ID}
    /\ reminderRows' = Append(reminderRows,
                              [TaskID |-> dueBatch[dueIdx].ID, ChatAt |-> now,
                               State |-> ReminderStatePending, CancelledAt |-> NoTime,
                               MessageID |-> ""])
    /\ dueCreated' = dueCreated \cup {Len(reminderRows) + 1}
    /\ duePc' = "update"
    /\ UNCHANGED <<now, agentVars, scheduler, taskRows, maxConcurrentTasks, signals, chatVars,
                   dueBatch, dueIdx, remVars>>

\* s.reminders.Create fails: createReminder returns the error, checkDueTasks
\* logs it and continues.
DueCreateFails ==
    /\ duePc = "create" /\ dueIdx <= Len(dueBatch)
    /\ dueSeen' = dueSeen \cup {dueBatch[dueIdx].ID}
    /\ dueIdx' = DueAfterFailure(dueIdx, Len(dueBatch))
    /\ UNCHANGED <<now, agentVars, scheduler, dbVars, maxConcurrentTasks, signals, chatVars,
                   duePc, dueBatch, dueCreated, remVars>>

\* DueUpdateOk when the update has no WHERE on the id of the task and sets
\* every row of the table to scheduled.
DueUpdateOkEveryRow ==
    /\ duePc = "update"
    /\ taskRows' = [id \in 1..Len(taskRows) |->
                       [taskRows[id] EXCEPT !.State = TaskStateScheduled]]
    /\ duePc' = "create"
    /\ dueIdx' = dueIdx + 1
    /\ UNCHANGED <<now, agentVars, scheduler, reminderRows, maxConcurrentTasks, signals, chatVars,
                   dueBatch, dueSeen, dueCreated, remVars>>

\* createReminder, second half: task.State = scheduled; s.tasks.Update(task)
\* saves every column of the task the tick holds.
DueUpdateOk ==
    /\ duePc = "update"
    /\ taskRows' = [taskRows EXCEPT ![dueBatch[dueIdx].ID] =
                      [dueBatch[dueIdx].row EXCEPT !.State = TaskStateScheduled]]
    /\ duePc' = "create"
    /\ dueIdx' = dueIdx + 1
    /\ UNCHANGED <<now, agentVars, scheduler, reminderRows, maxConcurrentTasks, signals, chatVars,
                   dueBatch, dueSeen, dueCreated, remVars>>

\* s.tasks.Update fails: the row is not written, createReminder returns the
\* error, checkDueTasks logs it and continues.
DueUpdateFails ==
    /\ duePc = "update"
    /\ duePc' = "create"
    /\ dueIdx' = DueAfterFailure(dueIdx, Len(dueBatch))
    /\ UNCHANGED <<now, agentVars, scheduler, dbVars, maxConcurrentTasks, signals, chatVars,
                   dueBatch, dueSeen, dueCreated, remVars>>

\* the loop over the batch is over: checkDueTasks returns nil
DueReturn ==
    /\ duePc = "create" /\ dueIdx > Len(dueBatch)
    /\ duePc' = "idle" /\ dueBatch' = <<>> /\ dueIdx' = 0 /\ dueSeen' = {} /\ dueCreated' = {}
    /\ UNCHANGED <<now, agentVars, scheduler, dbVars, maxConcurrentTasks, signals, chatVars, remVars>>

\* ===================================================================
\* Scheduler: the reminder loop (processReminders -> checkDueReminders)
\* ===================================================================
\* A tick of processReminders starts and ListPending fails.
RemListFails ==
    /\ remPc = "idle"
    /\ scheduler.processReminders
    /\ scheduler' = [scheduler EXCEPT !.processReminders = LoopAfterTickError(@)]
    /\ UNCHANGED <<now, agentVars, dbVars, maxConcurrentTasks, signals, chatVars,
                   dueVars, remVars>>

\* A tick of processReminders starts and ListPending returns the batch.
RemList ==
    /\ remPc = "idle"
    /\ scheduler.processReminders
    /\ \E q \in ListPending(maxConcurrentTasks) :
         /\ remBatch' = [i \in 1..Len(q) |-> [ID |-> q[i], row |-> reminderRows[q[i]]]]
         /\ remPc' = "loop" /\ remIdx' = 1 /\ remSeen' = {}
    /\ UNCHANGED <<now, agentVars, scheduler, dbVars, maxConcurrentTasks, signals, chatVars, dueVars>>

\* The index of the loop after sendReminder failed on item i of n (`continue`).
RemAfterFailure(i, n) == i + 1

\* StateAfterSend when sendReminder saves the reminder without setting its state.
StateUnchangedBySend(old) == old

\* The state sendReminder gives the reminder before it saves it.
StateAfterSend(old) == ReminderStateDelivered

\* reminder.ChatAt.After(time.Now()): the reminder is skipped. createReminder
\* is the only writer of chat_at and writes time.Now(), so no run of the
\* scheduler takes this branch; it is no disjunct of Next.
RemSkip ==
    /\ remPc = "loop" /\ remIdx <= Len(remBatch)
    /\ remBatch[remIdx].row.ChatAt > now
    /\ remSeen' = remSeen \cup {remBatch[remIdx].ID}
    /\ remIdx' = remIdx + 1
    /\ UNCHANGED <<now, agentVars, scheduler, dbVars, maxConcurrentTasks, signals, chatVars, dueVars,
                   remPc, remBatch>>

\* sendReminder: reminder.State = delivered; s.reminders.Update(reminder)
\* saves every column of the reminder the tick holds.
RemSendOk ==
    /\ remPc = "loop" /\ remIdx <= Len(remBatch)
    /\ ~(remBatch[remIdx].row.ChatAt > now)
    /\ remSeen' = remSeen \cup {remBatch[remIdx].ID}
    /\ reminderRows' = [reminderRows EXCEPT ![remBatch[remIdx].ID] =
                          [remBatch[remIdx].row EXCEPT
                             !.State = StateAfterSend(remBatch[remIdx].row.State)]]
    /\ remIdx' = remIdx + 1
    /\ UNCHANGED <<now, agentVars, scheduler, taskRows, maxConcurrentTasks, signals, chatVars, dueVars,
                   remPc, remBatch>>

\* s.reminders.Update fails: sendReminder returns the error, the loop logs
\* it and continues.
RemSendFails ==
    /\ remPc = "loop" /\ remIdx <= Len(remBatch)
    /\ ~(remBatch[remIdx].row.ChatAt > now)
    /\ remSeen' = remSeen \cup {remBatch[remIdx].ID}
    /\ remIdx' = RemAfterFailure(remIdx, Len(remBatch))
    /\ UNCHANGED <<now, agentVars, scheduler, dbVars, maxConcurrentTasks, signals, chatVars, dueVars,
                   remPc, remBatch>>

\* the loop over the batch is over: checkDueReminders returns nil
RemReturn ==
    /\ remPc = "loop" /\ remIdx > Len(remBatch)
    /\ remPc' = "idle" /\ remBatch' = <<>> /\ remIdx' = 0 /\ remSeen' = {}
    /\ UNCHANGED <<now, agentVars, scheduler, dbVars, maxConcurrentTasks, signals, chatVars, dueVars>>

\* ===================================================================
\* Scheduler: ScheduleTask and CancelTask
\* ===================================================================

\* Scheduler.ScheduleTask: GetByID or Update fails and nothing is written, or
\* the task gets the due time and state pending.
ScheduleTaskFails(id) == UNCHANGED vars

ScheduleTaskReturnsNil(id, dueAt) ==
    /\ TaskExists(id)
    /\ taskRows' = [taskRows EXCEPT ![id].DueAt = dueAt, ![id].State = TaskStatePending]
    /\ UNCHANGED <<now, agentVars, scheduler, reminderRows, maxConcurrentTasks, signals, chatVars, dueVars, remVars>>

ScheduleTask(id, dueAt) ==
    \/ ScheduleTaskFails(id)
    \/ ScheduleTaskReturnsNil(id, dueAt)

\* The reminders of the list that CancelTask sets to cancelled.
ToCancel(rs) == {r \in rs : reminderRows[r].State = ReminderStatePending}

\* Scheduler.CancelTask returns an error before any write: GetByID fails
\* (no such row, or the database fails) or the task Update fails.
CancelTaskFailsEarly(id) == UNCHANGED vars

\* the task is saved as cancelled, then ListByTaskID fails: error returned
CancelTaskListFails(id) ==
    /\ TaskExists(id)
    /\ taskRows' = [taskRows EXCEPT ![id].State = TaskStateCancelled]
    /\ UNCHANGED <<now, agentVars, scheduler, reminderRows, maxConcurrentTasks, signals, chatVars, dueVars, remVars>>

\* the task is saved as cancelled and each reminder of ToCancel is saved as
\* cancelled, but for those in `failed`, whose Update fails and is logged;
\* CancelTask returns nil.
CancelTaskReturnsNil(id, failed) ==
    /\ TaskExists(id)
    /\ failed \subseteq ToCancel(ListByTaskID(id))
    /\ taskRows' = [taskRows EXCEPT ![id].State = TaskStateCancelled]
    /\ reminderRows' = [r \in 1..Len(reminderRows) |->
                          IF r \in ToCancel(ListByTaskID(id)) \ failed
                          THEN [reminderRows[r] EXCEPT !.State = ReminderStateCancelled,
                                                       !.CancelledAt = now]
                          ELSE reminderRows[r]]
    /\ UNCHANGED <<now, agentVars, scheduler, maxConcurrentTasks, signals, chatVars, dueVars, remVars>>

CancelTask(id) ==
    \/ CancelTaskFailsEarly(id)
    \/ CancelTaskListFails(id)
    \/ \E failed \in SUBSET (1..Len(reminderRows)) : CancelTaskReturnsNil(id, failed)

\* ===================================================================
\* ChatOps: interactive components
\* ===================================================================
\* The payload of a click on "Snooze 2h" under the message of reminder r.
SnoozePayload(r) == [action |-> "snooze", reminder |-> r]

\* SlackClient.HandleInteractiveComponent: the payload is parsed and logged,
\* nil is returned; no table is read or written.
HandleInteractiveComponent(payload) ==
    /\ interaction' = payload
    /\ UNCHANGED <<now, agentVars, scheduler, dbVars, maxConcurrentTasks, signals, chatSent,
                   dueVars, remVars>>

\* ===================================================================
\* Scheduler: Stop and the exit of the two loops
\* ===================================================================
\* What an action on the Scheduler's own fields leaves alone.
exceptScheduler == <<now, agentVars, dbVars, maxConcurrentTasks, signals, chatVars,
                     dueVars, remVars>>

\* Scheduler.Stop, first statement: close(s.stopCh); Stop then blocks in
\* s.wg.Wait().
StopSignal ==
    /\ scheduler.Stop = "none"
    /\ scheduler' = [scheduler EXCEPT !.stopCh = "closed", !.Stop = "wait"]
    /\ UNCHANGED exceptScheduler

\* pollTasks between two ticks: the select takes <-s.stopCh, the goroutine
\* returns and its deferred s.wg.Done() runs.
PollTasksReturn ==
    /\ scheduler.pollTasks
    /\ duePc = "idle"
    /\ scheduler.stopCh = "closed"
    /\ scheduler' = [scheduler EXCEPT !.pollTasks = FALSE]
    /\ UNCHANGED exceptScheduler

\* processReminders between two ticks, the same way.
ProcessRemindersReturn ==
    /\ scheduler.processReminders
    /\ remPc = "idle"
    /\ scheduler.stopCh = "closed"
    /\ scheduler' = [scheduler EXCEPT !.processReminders = FALSE]
    /\ UNCHANGED exceptScheduler

\* StopReturn when Stop does not wait for the loops.
StopReturnWithoutWait ==
    /\ scheduler.Stop = "wait"
    /\ scheduler' = [scheduler EXCEPT !.redis = "closed", !.Stop = "returned"]
    /\ UNCHANGED exceptScheduler

\* Scheduler.Stop, the rest: s.wg.Wait() returns once both goroutines called
\* Done; then s.redis.Close() (an error is only logged) and return nil.
StopReturn ==
    /\ scheduler.Stop = "wait"
    /\ ~scheduler.pollTasks /\ ~scheduler.processReminders
    /\ scheduler' = [scheduler EXCEPT !.redis = "closed", !.Stop = "returned"]
    /\ UNCHANGED exceptScheduler

\* ===================================================================
\* Agent: Start, the heartbeat loop, Stop
\* ===================================================================
\* What an action on the Agent's connection and goroutines leaves alone.
exceptAgent == <<now, heap, agentTasks, dirs, tasksMutex, schedVars>>

\* The id register stores: fmt.Sprintf("%d", response.AgentID).
AgentID == "1"

StartReturn(failed) == [op |-> "Start", id |-> "", err |-> failed]

\* Agent.Start: a.connect() fails; Start returns the error.
\* (Start is called before Stop, as a process does that runs the agent.)
StartConnectFails ==
    /\ agent.Start = "none" /\ agent.Stop = "none"
    /\ agent' = [agent EXCEPT !.Start = "returned"]
    /\ ret' = StartReturn(TRUE)
    /\ UNCHANGED exceptAgent

\* StartRegisterFails when the heartbeat goroutine is started before the
\* registration is known to have succeeded.
StartRegisterFailsLoopRunning ==
    /\ agent.Start = "none" /\ agent.Stop = "none"
    /\ agent' = [agent EXCEPT !.conn = "open", !.heartbeatLoop = TRUE, !.Start = "returned"]
    /\ ret' = StartReturn(TRUE)
    /\ UNCHANGED exceptAgent

\* Agent.Start: a.connect() set a.conn, a.register() fails (request not
\* sent, status other than 200, answer not decoded); Start returns the error.
StartRegisterFails ==
    /\ agent.Start = "none" /\ agent.Stop = "none"
    /\ agent' = [agent EXCEPT !.conn = "open", !.Start = "returned"]
    /\ ret' = StartReturn(TRUE)
    /\ UNCHANGED exceptAgent

\* Agent.Start: connect and register succeeded; register stored the agent
\* id, Start adds the heartbeat goroutine to a.wg, starts it and returns nil.
StartOk ==
    /\ agent.Start = "none" /\ agent.Stop = "none"
    /\ agent' = [agent EXCEPT !.conn = "open", !.agentID = AgentID,
                              !.heartbeatLoop = TRUE, !.Start = "returned"]
    /\ ret' = StartReturn(FALSE)
    /\ UNCHANGED exceptAgent

\* A tick of heartbeatLoop: sendHeartbeat posts the heartbeat of a.agentID
\* and the server answers 200.
HeartbeatOk ==
    /\ agent.heartbeatLoop
    /\ agent.heartbeats < MaxHeartbeats
    /\ agent' = [agent EXCEPT !.heartbeats = @ + 1]
    /\ UNCHANGED <<ret, exceptAgent>>

\* A tick of heartbeatLoop: sendHeartbeat returns an error (the request
\* fails or the status is not 200); the loop logs it.
HeartbeatFails ==
    /\ agent.heartbeatLoop
    /\ agent' = [agent EXCEPT !.heartbeatLoop = LoopAfterTickError(@)]
    /\ UNCHANGED <<ret, exceptAgent>>

\* heartbeatLoop: the select takes <-a.stopCh, the goroutine returns and its
\* deferred a.wg.Done() runs.
HeartbeatLoopReturn ==
    /\ agent.heartbeatLoop
    /\ agent.stopCh = "closed"
    /\ agent' = [agent EXCEPT !.heartbeatLoop = FALSE]
    /\ UNCHANGED <<ret, exceptAgent>>

\* Agent.Stop, first statement: close(a.stopCh); Stop then blocks in
\* a.wg.Wait().
AgentStopSignal ==
    /\ agent.Stop = "none"
    /\ agent' = [agent EXCEPT !.stopCh = "closed", !.Stop = "wait"]
    /\ UNCHANGED <<ret, exceptAgent>>

\* Agent.Stop: a.wg.Wait() returned (a.wg counts the heartbeat goroutine
\* only: ExecuteTask starts its goroutine without a.wg.Add); under the lock,
\* Cancel() of every task of the registry whose Status is "running".
AgentStopCancel ==
    /\ agent.Stop = "wait"
    /\ ~agent.heartbeatLoop
    /\ tasksMutex = 0
    /\ heap' = [e \in 1..Len(heap) |->
                 IF (\E id \in AgentTaskIds : agentTasks[id] = e) /\ heap[e].Status = "running"
                 THEN [heap[e] EXCEPT !.ctxDone = TRUE]
                 ELSE heap[e]]
    /\ agent' = [agent EXCEPT !.Stop = "close"]
    /\ UNCHANGED <<now, agentTasks, ret, dirs, tasksMutex, schedVars>>

\* Agent.Stop, the rest: a.conn.Close() when a.conn is set; return nil.
AgentStopClose ==
    /\ agent.Stop = "close"
    /\ agent' = [agent EXCEPT !.conn = IF @ = "nil" THEN "nil" ELSE "closed",
                              !.Stop = "returned"]
    /\ UNCHANGED <<ret, exceptAgent>>

\* time passes (scheduler side)
Clock ==
    /\ now < MaxNow
    /\ now' = now + 1
    /\ UNCHANGED <<agentVars, schedVars>>

\* The scheduler never reads TaskType or Params: under Spec every task is
\* created as a plain script task, under SpecServer with every kind.
ScriptKind == [TaskType |-> "", Params |-> {}]

Next ==
    \/ \E st \in RequestStates, d \in Times \cup {NoTime} : CreateTask(st, d, ScriptKind)
    \/ DueListFails
    \/ DueList
    \/ DueCreateOk
    \/ DueCreateFails
    \/ DueUpdateOk
    \/ DueUpdateFails
    \/ DueReturn
    \/ RemListFails
    \/ RemList
    \/ RemSendOk
    \/ RemSendFails
    \/ RemReturn
    \/ \E id \in TaskIds, d \in Times : ScheduleTask(id, d)
    \/ \E id \in TaskIds : CancelTask(id)

\* The scheduler with the chat client's handler of interactive components.
NextChat ==
    \/ Next
    \/ \E r \in 1..Len(reminderRows) : HandleInteractiveComponent(SnoozePayload(r))

SpecChat == Init /\ [][NextChat]_vars

\* The scheduler and the task table while the clock stands still ...
Spec == Init /\ [][Next]_vars

\* ... and with time passing at any point.
NextClock == Next \/ Clock

SpecClock == Init /\ [][NextClock]_vars

\* The two loops alone, on pending tasks created through the API, with
\* time passing between and inside the ticks.
NextLoopsClock ==
    \/ \E d \in Times : CreateTask("", d, ScriptKind)
    \/ DueListFails
    \/ DueList
    \/ DueCreateOk
    \/ DueCreateFails
    \/ DueUpdateOk
    \/ DueUpdateFails
    \/ DueReturn
    \/ RemListFails
    \/ RemList
    \/ RemSendOk
    \/ RemSendFails
    \/ RemReturn
    \/ Clock

SpecLoopsClock == Init /\ [][NextLoopsClock]_vars

\* The due-task loop alone, with time passing.
NextDueLoop ==
    \/ \E d \in Times : CreateTask("", d, ScriptKind)
    \/ DueListFails
    \/ DueList
    \/ DueCreateOk
    \/ DueCreateFails
    \/ DueUpdateOk
    \/ DueUpdateFails
    \/ DueReturn
    \/ Clock

\* Fair ticks: the ticker keeps firing and a tick that started runs to its
\* end (weak fairness of each step of the loop); transient failures: a
\* repository call that is tried again and again succeeds at some attempt
\* (weak fairness of the listing, which is enabled whenever the loop is
\* between ticks; strong fairness of the create and of the update, which are
\* enabled once per item).
FairDueLoop ==
    /\ WF_vars(DueList)
    /\ WF_vars(DueCreateOk \/ DueCreateFails)
    /\ WF_vars(DueUpdateOk \/ DueUpdateFails)
    /\ WF_vars(DueReturn)
    /\ SF_vars(DueCreateOk)
    /\ SF_vars(DueUpdateOk)

SpecDueLoopFair == Init /\ [][NextDueLoop]_vars /\ FairDueLoop

NextServer ==
    \/ \E st \in RequestStates, d \in Times \cup {NoTime}, k \in TaskKinds : CreateTask(st, d, k)
    \/ \E id \in TaskIds : handleExecuteTask(id)
    \/ \E id \in TaskIds, d \in Times : ScheduleTask(id, d)
    \/ \E id \in TaskIds : CancelTask(id)
    \/ Clock

SpecServer == Init /\ [][NextServer]_vars

\* the agent alone; the scheduler's configuration plays no part
InitAgentAlone == Init /\ maxConcurrentTasks = 0

SpecAgent == InitAgentAlone /\ [][NextAgent]_vars

\* The runtime guarantees of the agent: an armed timer whose deadline has
\* passed fires, and a process whose context is done is killed, so that
\* io.ReadAll and cmd.Wait return and the goroutine makes its final write.
\* A script whose context is not done may run for ever.
KilledProcessExits(e) ==
    /\ e \in 1..Len(heap)
    /\ heap[e].ctxDone
    /\ \E c \in ExitCodes \cup {KilledExit} : ExecFinish(e, c)

TimerFires(e) == e \in 1..Len(heap) /\ DeadlineFires(e)

FairAgent ==
    \A e \in 1..MaxExecs : WF_vars(TimerFires(e)) /\ WF_vars(KilledProcessExits(e))

SpecAgentFair == InitAgentAlone /\ [][NextAgent]_vars /\ FairAgent

\* The scheduler's two loops on pending tasks created through the API,
\* with Stop called at any point.
NextSchedStop ==
    \/ \E d \in Times : CreateTask("", d, ScriptKind)
    \/ DueListFails
    \/ DueList
    \/ DueCreateOk
    \/ DueCreateFails
    \/ DueUpdateOk
    \/ DueUpdateFails
    \/ DueReturn
    \/ RemListFails
    \/ RemList
    \/ RemSendOk
    \/ RemSendFails
    \/ RemReturn
    \/ StopSignal
    \/ PollTasksReturn
    \/ ProcessRemindersReturn
    \/ StopReturn

SpecSchedStop == Init /\ [][NextSchedStop]_vars

\* Start, the heartbeat loop and Stop of the agent.
NextAgentLifecycle ==
    \/ StartConnectFails
    \/ StartRegisterFails
    \/ StartOk
    \/ HeartbeatOk
    \/ HeartbeatFails
    \/ HeartbeatLoopReturn
    \/ AgentStopSignal
    \/ AgentStopCancel
    \/ AgentStopClose

\* The agent's task runtime with Start and Stop called at any point.
NextAgentStop ==
    \/ \E id \in AgentTaskIds, timeout \in Timeouts : ExecuteTask(id, timeout)
    \/ \E e \in 1..Len(heap), msg \in InfraErrors : ExecInfraFail(e, msg)
    \/ \E e \in 1..Len(heap) : ExecStart(e)
    \/ \E e \in 1..Len(heap), c \in ExitCodes \cup {KilledExit} : ExecFinish(e, c)
    \/ \E id \in AgentTaskIds : AgentCancelTask(id)
    \/ NextAgentLifecycle

SpecAgentStop == InitAgentAlone /\ [][NextAgentStop]_vars

\* The two loops with time passing and cancellations, the ticks of the
\* delivery loop fair: the ticker keeps firing and a tick that started runs
\* to its end (weak fairness of each step of the loop), and the update of a
\* reminder that is tried again and again succeeds at some attempt (strong
\* fairness of the successful send).
NextRemLoop ==
    \/ NextLoopsClock
    \/ \E id \in TaskIds : CancelTaskReturnsNil(id, {})

FairRemLoop ==
    /\ WF_vars(RemList)
    /\ WF_vars(RemSendOk \/ RemSendFails)
    /\ WF_vars(RemReturn)
    /\ SF_vars(RemSendOk)

SpecRemLoopFair == Init /\ [][NextRemLoop]_vars /\ FairRemLoop

\* The two loops and cancellations that return nil with every reminder
\* update succeeding, on pending tasks created through the API.
NextCancelRace ==
    \/ \E d \in Times : CreateTask("", d, ScriptKind)
    \/ DueListFails
    \/ DueList
    \/ DueCreateOk
    \/ DueCreateFails
    \/ DueUpdateOk
    \/ DueUpdateFails
    \/ DueReturn
    \/ RemListFails
    \/ RemList
    \/ RemSendOk
    \/ RemSendFails
    \/ RemReturn
    \/ \E id \in TaskIds : CancelTaskReturnsNil(id, {})

SpecCancelRace == Init /\ [][NextCancelRace]_vars

\* The three periodic loops (due tasks, reminder delivery, heartbeat), each
\* in its own process, with the Stop of each process called at any point.
NextLoops == NextSchedStop \/ NextAgentLifecycle

SpecLoops == Init /\ [][NextLoops]_vars

\* ===================================================================
\* Claims about the agent task runtime (checked under SpecAgent)
\* ===================================================================
Terminal == {"completed", "failed", "cancelled"}

\* C1: ExecuteTask for a task id whose registry record is running returns an
\* error and leaves the registry entry and its Task object as they were.
C1_DuplicateExecuteRejected ==
    [][\A id \in AgentTaskIds :
         (Known(id) /\ Record(id).Status = "running"
            /\ \E timeout \in Timeouts : ExecuteTask(id, timeout))
            => /\ ret'.err
               /\ agentTasks'[id] = agentTasks[id]
               /\ heap'[agentTasks[id]] = Record(id)]_vars

\* C4: a successful CancelTask leaves the record cancelled, with an end time
\* and the "cancelled by user" error, and a cancelled Task object stays
\* cancelled in every later step, whatever its goroutine observes.
C4_CancelledIsFinal ==
    [][/\ \A id \in AgentTaskIds :
            (AgentCancelTask(id) /\ ~ret'.err)
               => /\ heap'[agentTasks[id]].Status = "cancelled"
                  /\ heap'[agentTasks[id]].EndTime # NoTime
                  /\ heap'[agentTasks[id]].Error = ErrCancelled
       /\ \A e \in 1..Len(heap) :
            heap[e].Status = "cancelled" => heap'[e].Status = "cancelled"]_vars

\* C5: CancelTask on an unknown task id, or on a record that is not running,
\* returns an error, changes no record and triggers no cancellation handle.
C5_CancelRejectedLeavesState ==
    [][\A id \in AgentTaskIds :
         (AgentCancelTask(id) /\ (~Known(id) \/ Record(id).Status # "running"))
            => ret'.err /\ heap' = heap /\ agentTasks' = agentTasks]_vars

\* CancelTask has returned an error for a task whose record is terminal.
C5_Witness ==
    /\ ret.op = "CancelTask" /\ ret.err
    /\ Known(ret.id) /\ Record(ret.id).Status \in Terminal

\* ===================================================================
\* Claims about the scheduler (checked under Spec)
\* ===================================================================
TerminalTaskStates == {TaskStateCompleted, TaskStateFailed, TaskStateCancelled}
TerminalReminderStates == {ReminderStateActioned, ReminderStateCancelled}

BatchIds(batch) == {batch[i].ID : i \in 1..Len(batch)}

C3_PromotionAtomic ==
    [][DueUpdateFails
          => LET t == dueBatch[dueIdx].ID IN
               {r \in dueCreated : r <= Len(reminderRows') /\ reminderRows'[r].TaskID = t} = {}]_vars

\* C6: a task in a terminal state changes state only by ScheduleTask.
C6_TerminalTaskStaysTerminal ==
    [][\A id \in 1..Len(taskRows) :
         (taskRows[id].State \in TerminalTaskStates
            /\ taskRows'[id].State # taskRows[id].State)
            => \E d \in Times : ScheduleTaskReturnsNil(id, d)]_vars

\* C7: no step sets an actioned or cancelled reminder back to pending.
C7_TerminalReminderNeverPending ==
    [][\A r \in 1..Len(reminderRows) :
         reminderRows[r].State \in TerminalReminderStates
            => reminderRows'[r].State # ReminderStatePending]_vars

\* A reminder is cancelled while the delivery tick still holds the copy it
\* loaded as pending and has yet to save it.
C7_Witness ==
    /\ remPc = "loop"
    /\ \E i \in 1..Len(remBatch) :
         /\ i >= remIdx
         /\ reminderRows[remBatch[i].ID].State = ReminderStateCancelled
         /\ remBatch[i].row.State = ReminderStatePending

\* C8: when CancelTask returns nil, every reminder of the task that was
\* pending or delivered is cancelled, and those that were actioned or
\* cancelled are unchanged.
C8_CancelCascades ==
    [][\A id \in 1..Len(taskRows) :
         (\E failed \in SUBSET (1..Len(reminderRows)) : CancelTaskReturnsNil(id, failed))
            => \A r \in ListByTaskID(id) :
                 /\ reminderRows[r].State \in {ReminderStatePending, ReminderStateDelivered}
                      => reminderRows'[r].State = ReminderStateCancelled
                 /\ reminderRows[r].State \in TerminalReminderStates
                      => reminderRows'[r] = reminderRows[r]]_vars

\* C9: when CancelTask returns nil the task is cancelled, and when the task
\* was running a cancellation has been sent to its agent.
C9_CancelSignalsAgent ==
    [][\A id \in 1..Len(taskRows) :
         (\E failed \in SUBSET (1..Len(reminderRows)) : CancelTaskReturnsNil(id, failed))
            => /\ taskRows'[id].State = TaskStateCancelled
               /\ taskRows[id].State = TaskStateRunning => id \in signals']_vars

\* C10: a tick returns only after its loop body has run for every item of
\* the batch, whichever items failed.
C10_TickProcessesWholeBatch ==
    [][/\ DueReturn => dueSeen = BatchIds(dueBatch)
       /\ RemReturn => remSeen = BatchIds(remBatch)]_vars

\* The due-task tick has gone through a batch of two: creating the reminder
\* of the first task failed, the second task was promoted all the same.
C10_Witness ==
    /\ duePc = "create" /\ Len(dueBatch) = 2 /\ dueIdx = 3
    /\ {r \in dueCreated : reminderRows[r].TaskID = dueBatch[1].ID} = {}
    /\ {r \in dueCreated : reminderRows[r].TaskID = dueBatch[2].ID} # {}
    /\ taskRows[dueBatch[2].ID].State = TaskStateScheduled

\* C11: a step of the reminder-delivery loop leaves a pending reminder whose
\* chat_at is later than now as it is, and moves to delivered only a
\* reminder that is pending with chat_at <= now.
C11_OnlyDuePendingDelivered ==
    [][(remPc = "loop" /\ remIdx <= Len(remBatch) /\ remIdx' = remIdx + 1)
          => LET r == remBatch[remIdx].ID IN
               /\ (reminderRows[r].State = ReminderStatePending
                     /\ reminderRows[r].ChatAt > now)
                    => reminderRows'[r] = reminderRows[r]
               /\ (reminderRows'[r].State = ReminderStateDelivered
                     /\ reminderRows[r].State # ReminderStateDelivered)
                    => /\ reminderRows[r].State = ReminderStatePending
                       /\ reminderRows[r].ChatAt <= now]_vars

\* C12: whenever a reminder goes from pending to delivered, that step has
\* called SendReminderMessage exactly once, with the reminder's task id, and
\* the message id the call returned is stored in the reminder.
C12_DeliverySendsOneMessage ==
    [][\A r \in 1..Len(reminderRows) :
         (reminderRows[r].State = ReminderStatePending
            /\ reminderRows'[r].State = ReminderStateDelivered)
            => /\ Cardinality(chatSent' \ chatSent) = 1
               /\ \A m \in chatSent' \ chatSent :
                    /\ m.taskID = reminderRows[r].TaskID
                    /\ reminderRows'[r].MessageID = m.messageID]_vars

\* C13: handling a "Snooze 2h" click on a delivered reminder sets the
\* chat_at of the same row to now + 2h and its state to pending, adding no
\* row; and the delivery loop delivers no reminder before its chat_at.
C13_SnoozeRearms ==
    [][\A r \in 1..Len(reminderRows) :
         /\ (HandleInteractiveComponent(SnoozePayload(r))
               /\ reminderRows[r].State = ReminderStateDelivered)
              => /\ Len(reminderRows') = Len(reminderRows)
                 /\ reminderRows'[r].State = ReminderStatePending
                 /\ reminderRows'[r].ChatAt = now + 2
         /\ (reminderRows[r].State = ReminderStatePending
               /\ reminderRows'[r].State = ReminderStateDelivered)
              => reminderRows[r].ChatAt <= now]_vars

\* C14: handleExecuteTask for a task that is running is rejected: the task
\* row stays as it is.
C14_RunningNotDispatchedAgain ==
    [][\A id \in 1..Len(taskRows) :
         (taskRows[id].State = TaskStateRunning /\ handleExecuteTask(id))
            => taskRows'[id] = taskRows[id]]_vars

\* ===================================================================
\* Claims about the agent's executions (checked under SpecAgent)
\* ===================================================================
AllExitCodes == ExitCodes \cup {KilledExit}

\* C16: when the process of an execution exits and the task was not
\* cancelled, the record the registry holds for the task id is completed
\* with exit code 0 when the process exited with 0, failed with the exit
\* code otherwise, and has an end time.
C16_ExitRecordedInRegistry ==
    [][\A e \in 1..Len(heap), c \in AllExitCodes :
         (ExecFinish(e, c) /\ heap[e].Status # "cancelled")
            => LET rec == heap'[agentTasks'[heap[e].ID]] IN
                 /\ rec.Status = IF c = 0 THEN "completed" ELSE "failed"
                 /\ rec.ExitCode = c
                 /\ rec.EndTime = now]_vars

\* C17: a failure before the process runs leaves the record failed with an
\* error text that no script exit leaves, whatever the exit code (the exit
\* code is 1 in both cases); once its goroutine has returned a record does
\* not change, so the two kinds of record stay apart.
C17_InfraFailureDistinguishable ==
    [][\A e \in 1..Len(heap) :
         /\ \A msg \in InfraErrors :
              ExecInfraFail(e, msg)
                 => /\ heap'[e].Status = "failed"
                    /\ heap'[e].Error \in InfraErrors
         /\ \A c \in AllExitCodes \ {0} :
              ExecFinish(e, c)
                 => /\ heap'[e].Status = "failed"
                    /\ heap'[e].Error \notin InfraErrors
         /\ heap[e].pc = "done" => heap'[e] = heap[e]]_vars

\* Two finished records with exit code 1: one of a failure before the
\* process ran, one of a script that exited with 1.
C17_Witness ==
    \E e1, e2 \in 1..Len(heap) :
        /\ heap[e1].pc = "done" /\ heap[e1].Status = "failed"
        /\ heap[e1].ExitCode = 1 /\ heap[e1].Error \in InfraErrors
        /\ heap[e2].pc = "done" /\ heap[e2].Status = "failed"
        /\ heap[e2].ExitCode = 1 /\ heap[e2].Error = ExitError(1)

\* C18: when the goroutine of an execution ends, on whatever path, the
\* working directory of its task does not exist.
C18_WorkDirRemoved ==
    [][\A e \in 1..Len(heap) :
         (heap[e].pc # "done" /\ heap'[e].pc = "done")
            => heap[e].ID \notin dirs']_vars

\* The deadline of execution e has passed while its process runs.
DeadlinePassed(e) ==
    /\ e \in 1..Len(heap)
    /\ heap[e].pc = "wait"
    /\ heap[e].Deadline # NoTime /\ now >= heap[e].Deadline

\* The goroutine of execution e has returned and its record is not running.
RunEnded(e) ==
    /\ e \in 1..Len(heap)
    /\ heap[e].pc = "done" /\ heap[e].Status # "running"

C20_StatusNeverWaitsForScript ==
    [][/\ \A id \in AgentTaskIds :
            GetTaskStatus(id)
               => /\ ret'.err = ~Known(id)
                  /\ Known(id) => ret'.task = agentTasks[id] /\ heap'[ret'.task] = Record(id)
                  /\ agentTasks' = agentTasks
       /\ \A e \in 1..Len(heap') : heap'[e].pc = "wait" => tasksMutex' = 0]_vars

\* GetTaskStatus has returned the record of a task whose script is running.
C20_Witness ==
    /\ ret.op = "GetTaskStatus" /\ ~ret.err
    /\ heap[ret.task].pc = "wait" /\ heap[ret.task].Status = "running"

\* ===================================================================
\* Claims about task creation (checked under SpecServer)
\* ===================================================================
\* The row a step adds to the task table.
RowCreated == Len(taskRows') = Len(taskRows) + 1
NewRow == taskRows'[Len(taskRows')]

\* C26: a task is pending right after its creation, whatever state the
\* request carried and whether or not due_at is set.
C26_CreatedPending ==
    [][RowCreated => NewRow.State = TaskStatePending]_vars

\* C27: no task is stored whose due_at is set and not later than now at the
\* moment of its creation.
C27_DueAtInFutureAtCreation ==
    [][RowCreated => (NewRow.DueAt = NoTime \/ NewRow.DueAt > now)]_vars

\* ===================================================================
\* Claims about the selection of a due-task tick (checked under Spec)
\* ===================================================================
\* The largest batch the configuration allows.
MaxBatchSize == IF maxConcurrentTasks <= 0 THEN DefaultLimit ELSE maxConcurrentTasks

\* C29: a due-task tick lists only pending tasks whose due_at is set and not
\* later than now, never more of them than the configured batch size (10
\* when the configured size is not positive); the reminders one tick creates
\* never exceed that size, and the loop promotes no task without a due_at.
C29_TickSelectsDuePendingWithinBatch ==
    [][/\ (duePc = "idle" /\ duePc' = "create") =>
              /\ Len(dueBatch') <= MaxBatchSize
              /\ \A i \in 1..Len(dueBatch') :
                    LET t == taskRows[dueBatch'[i].ID]
                    IN  /\ t.State = TaskStatePending
                        /\ t.DueAt # NoTime
                        /\ t.DueAt <= now
       /\ Cardinality(dueCreated') <= MaxBatchSize
       /\ \A id \in 1..Len(taskRows) :
             (/\ duePc = "update"
              /\ taskRows[id].State # TaskStateScheduled
              /\ taskRows'[id].State = TaskStateScheduled)
                => taskRows'[id].DueAt # NoTime
      ]_vars

\* A tick with batch size 1 has listed one of two due pending tasks and
\* created the reminder of that one, while a task without due_at exists
\* or not.
C29_Witness ==
    /\ maxConcurrentTasks = 1
    /\ duePc = "update"
    /\ Len(dueBatch) = 1
    /\ Cardinality(dueCreated) = 1
    /\ Cardinality({id \in 1..Len(taskRows) :
                      taskRows[id].State = TaskStatePending
                      /\ taskRows[id].DueAt # NoTime
                      /\ taskRows[id].DueAt <= now}) = 2

\* ===================================================================
\* Claims about chat_at of waiting reminders (checked under SpecLoopsClock)
\* ===================================================================
\* C28 (as stated): in every reachable state every pending reminder has
\* chat_at >= now.
C28_PendingChatAtNotBeforeNow ==
    \A r \in 1..Len(reminderRows) :
        reminderRows[r].State = ReminderStatePending => reminderRows[r].ChatAt >= now

\* C28 (amended): a reminder the due-task loop creates is pending with
\* chat_at equal to now at the moment of its creation; chat_at of a stored
\* reminder never changes; so every reminder, a pending one waiting between
\* ticks included, has chat_at <= now.
C28_ChatAtIsCreationTime ==
    [][/\ Len(reminderRows') = Len(reminderRows) + 1 =>
              /\ reminderRows'[Len(reminderRows')].ChatAt = now
              /\ reminderRows'[Len(reminderRows')].State = ReminderStatePending
       /\ \A r \in 1..Len(reminderRows) : reminderRows'[r].ChatAt = reminderRows[r].ChatAt
       /\ \A r \in 1..Len(reminderRows') : reminderRows'[r].ChatAt <= now'
      ]_vars

\* A pending reminder created at time 0 for a task due at time 0 by a tick
\* that ran at time 0 is still waiting at time 1.
C28_Witness ==
    /\ now = 1
    /\ \E r \in 1..Len(reminderRows) :
          /\ reminderRows[r].State = ReminderStatePending
          /\ reminderRows[r].ChatAt = 0
          /\ remPc = "idle"

\* ===================================================================
\* Claims about dispatch and agent liveness (checked under SpecServer)
\* ===================================================================
\* C25: while no registered agent has a heartbeat inside the liveness
\* window (whatever the window is), a dispatch fails and the task is not
\* moved to running.
C25_NoDispatchWithoutLiveAgent ==
    [][(\A w \in 0..MaxNow : LiveAgents(now, w) = {}) =>
          \A id \in 1..Len(taskRows) :
             taskRows'[id].State \in {TaskStateRunning, TaskStateCompleted}
                => taskRows'[id].State = taskRows[id].State
      ]_vars

\* ===================================================================
\* Claims about the life of the loops (checked under SpecLoops,
\* SpecSchedStop and SpecAgentStop)
\* ===================================================================
\* C21: each of the three periodic loops (due tasks, reminder delivery,
\* agent heartbeat) ends only after the shutdown channel of its process was
\* closed; whatever ticks failed, a loop that was started runs, ready for its
\* next tick, as long as that channel is open.
C21_LoopsEndOnlyOnShutdown ==
    [][/\ (scheduler.pollTasks /\ ~scheduler'.pollTasks) => scheduler.stopCh = "closed"
       /\ (scheduler.processReminders /\ ~scheduler'.processReminders)
              => scheduler.stopCh = "closed"
       /\ (agent.heartbeatLoop /\ ~agent'.heartbeatLoop) => agent.stopCh = "closed"
       /\ scheduler'.stopCh = "open" => (scheduler'.pollTasks /\ scheduler'.processReminders)
       /\ (agent'.agentID # "" /\ agent'.stopCh = "open") => agent'.heartbeatLoop
      ]_vars

\* A due-task tick whose only item failed at the creation of the reminder
\* is past that item, with the three loops running and no shutdown
\* signalled.
C21_Witness ==
    /\ duePc = "create" /\ dueIdx > Len(dueBatch)
    /\ dueSeen # {} /\ dueCreated = {}
    /\ scheduler.stopCh = "open" /\ scheduler.pollTasks /\ scheduler.processReminders
    /\ agent.stopCh = "open" /\ agent.heartbeatLoop /\ agent.heartbeats > 0

\* C22: Redis is closed only after both loops have exited, and once Stop has
\* returned both loops have exited with no tick of either still running
\* (so none starts afterwards); a loop exits only between two ticks, after
\* the shared stop channel was closed.
C22_StopWaitsForBothLoops ==
    /\ scheduler.redis = "closed" => (~scheduler.pollTasks /\ ~scheduler.processReminders)
    /\ scheduler.Stop = "returned" =>
          /\ ~scheduler.pollTasks /\ ~scheduler.processReminders
          /\ duePc = "idle" /\ remPc = "idle"
          /\ scheduler.stopCh = "closed" /\ scheduler.redis = "closed"
    /\ ~scheduler.pollTasks => (duePc = "idle" /\ scheduler.stopCh = "closed")
    /\ ~scheduler.processReminders => (remPc = "idle" /\ scheduler.stopCh = "closed")

\* Stop has returned in a run whose ticks created and delivered a reminder:
\* TLC reaches it also through runs where Stop was called while both ticks
\* were running.
C22_Witness ==
    /\ scheduler.Stop = "returned"
    /\ \E r \in 1..Len(reminderRows) : reminderRows[r].State = ReminderStateDelivered

\* C23: Stop closes the connection to the server only after every
\* concurrent unit has ended: the heartbeat loop and the execution goroutine
\* of every task.
C23_StopWaitsForAllUnits ==
    [][(agent.conn = "open" /\ agent'.conn = "closed") =>
          /\ ~agent.heartbeatLoop
          /\ \A e \in 1..Len(heap) : heap[e].pc = "done"
      ]_vars

\* C24: a heartbeat is sent only with the agent id of a successful
\* registration; the heartbeat loop starts only in a Start that registered
\* and returns nil; a Start that returns an error leaves no heartbeat loop
\* running and no agent id assigned.
C24_HeartbeatOnlyAfterRegistration ==
    [][/\ agent'.heartbeats > agent.heartbeats =>
              (agent.agentID = AgentID /\ agent.Start = "returned")
       /\ (~agent.heartbeatLoop /\ agent'.heartbeatLoop) =>
              (agent'.agentID = AgentID /\ ret' = StartReturn(FALSE))
       /\ (agent.Start = "none" /\ agent'.Start = "returned" /\ ret'.err) =>
              (~agent'.heartbeatLoop /\ agent'.agentID = "")
       /\ agent'.heartbeatLoop => agent'.agentID = AgentID
      ]_vars

\* A Start that failed at the registration: connected, no agent id, no
\* heartbeat loop, no heartbeat sent.
C24_Witness ==
    /\ agent.Start = "returned" /\ ret = StartReturn(TRUE)
    /\ agent.conn = "open"
    /\ agent.agentID = "" /\ ~agent.heartbeatLoop /\ agent.heartbeats = 0

\* ===================================================================
\* Claims about the progress of due tasks (checked under SpecDueLoopFair)
\* ===================================================================
PendingDue(id) ==
    /\ id \in 1..Len(taskRows)
    /\ taskRows[id].State = TaskStatePending
    /\ taskRows[id].DueAt # NoTime
    /\ taskRows[id].DueAt <= now

ScheduledWithReminder(id) ==
    /\ id \in 1..Len(taskRows)
    /\ taskRows[id].State = TaskStateScheduled
    /\ \E r \in 1..Len(reminderRows) : reminderRows[r].TaskID = id

DueTickStep ==
    \/ DueList \/ DueListFails
    \/ DueCreateOk \/ DueCreateFails
    \/ DueUpdateOk \/ DueUpdateFails
    \/ DueReturn

\* C32: the batch of a tick holds only tasks that were pending with
\* due_at <= now when the tick listed them, and a step of the tick neither
\* changes a field of a task outside its batch (scheduled, running,
\* completed, cancelled, or pending with a later or no due_at) nor creates
\* a reminder for it.
C32_TickLeavesOtherTasksAlone ==
    [][/\ \A i \in 1..Len(dueBatch') :
              /\ dueBatch'[i].row.State = TaskStatePending
              /\ dueBatch'[i].row.DueAt # NoTime
              /\ dueBatch'[i].row.DueAt <= now
       /\ (duePc = "idle" /\ duePc' = "create") =>
              \A i \in 1..Len(dueBatch') : dueBatch'[i].row = taskRows[dueBatch'[i].ID]
       /\ DueTickStep =>
              \A id \in 1..Len(taskRows) :
                  id \notin BatchIds(dueBatch) =>
                      /\ taskRows'[id] = taskRows[id]
                      /\ \A r \in (Len(reminderRows) + 1)..Len(reminderRows') :
                            reminderRows'[r].TaskID # id
      ]_vars

\* A tick has created the reminder of the one task of its batch and is
\* about to save that task, while a running task is in the table.
C32_Witness ==
    /\ duePc = "update"
    /\ Len(dueBatch) = 1
    /\ Len(taskRows) = 2
    /\ \E id \in 1..Len(taskRows) :
          /\ id \notin BatchIds(dueBatch)
          /\ taskRows[id].State = TaskStateRunning
    /\ Len(reminderRows) = 1

\* ===================================================================
\* Claims about concurrent runs of one task id (checked under SpecAgent)
\* ===================================================================
\* The executions of task id whose script process is running.
Executing(id) == {e \in 1..Len(heap) : heap[e].ID = id /\ heap[e].pc = "wait"}

\* C33: at most one script process of a task id is executing at any time,
\* and the end of an execution never removes the working directory while
\* another execution of the same id is still running its process.
C33_OneProcessPerTaskId ==
    [][/\ \A id \in AgentTaskIds : Cardinality({e \in 1..Len(heap') :
                                      heap'[e].ID = id /\ heap'[e].pc = "wait"}) <= 1
       /\ \A e \in 1..Len(heap) :
             (heap[e].pc = "wait" /\ heap'[e].pc = "done" /\ heap[e].ID \notin dirs')
                => Executing(heap[e].ID) \ {e} = {}
      ]_vars

\* ===================================================================
\* Claims about running tasks on the server (checked under SpecServer)
\* ===================================================================
\* C37: ScheduleTask never moves a task that is running to pending.
C37_RunningNotRescheduled ==
    [][\A id \in 1..Len(taskRows), d \in Times :
          (taskRows[id].State = TaskStateRunning /\ ScheduleTask(id, d))
             => taskRows'[id].State # TaskStatePending
      ]_vars

\* C38: a request to execute a task never ends with the task in state
\* running when it was not running before the request.
C38_ExecuteNeverLeavesRunning ==
    [][\A id \in 1..Len(taskRows) :
          (handleExecuteTask(id) /\ taskRows[id].State # TaskStateRunning)
             => taskRows'[id].State # TaskStateRunning
      ]_vars

\* ===================================================================
\* Claims about cancellation racing with a tick (checked under
\* SpecCancelRace, where CancelTask is the only source of cancelled rows)
\* ===================================================================
\* C34: a step of a due-task tick never moves a cancelled task out of
\* cancelled and never creates a reminder for a cancelled task.
C34_CancelWinsOverDueTick ==
    [][\A id \in 1..Len(taskRows) :
          (taskRows[id].State = TaskStateCancelled /\ DueTickStep)
             => /\ taskRows'[id].State = TaskStateCancelled
                /\ \A r \in (Len(reminderRows) + 1)..Len(reminderRows') :
                      reminderRows'[r].TaskID # id
      ]_vars

\* C35: a reminder that is cancelled is never afterwards delivered, and
\* keeps its cancelled_at.
C35_CancelledReminderNotDelivered ==
    [][\A r \in 1..Len(reminderRows) :
          reminderRows[r].State = ReminderStateCancelled
             => /\ reminderRows'[r].State # ReminderStateDelivered
                /\ reminderRows'[r].CancelledAt = reminderRows[r].CancelledAt
      ]_vars

\* ===================================================================
\* Claims about the reminders of one task (checked under Spec)
\* ===================================================================
\* The reminders of task id that are pending or delivered.
LiveReminders(id) ==
    {r \in 1..Len(reminderRows) :
        /\ reminderRows[r].TaskID = id
        /\ reminderRows[r].State \in {ReminderStatePending, ReminderStateDelivered}}

\* C36: in every reachable state each task has at most one reminder that
\* is pending or delivered.
C36_OneLiveReminderPerTask ==
    \A id \in 1..Len(taskRows) : Cardinality(LiveReminders(id)) <= 1

\* ===================================================================
\* Claims about the progress of reminders (checked under SpecRemLoopFair)
\* ===================================================================
PendingElapsed(r) ==
    /\ r \in 1..Len(reminderRows)
    /\ reminderRows[r].State = ReminderStatePending
    /\ reminderRows[r].ChatAt <= now

DeliveredOrCancelled(r) ==
    /\ r \in 1..Len(reminderRows)
    /\ reminderRows[r].State \in {ReminderStateDelivered, ReminderStateCancelled}

\* C31: with fair ticks and transient failures, every pending reminder
\* whose chat_at has elapsed is eventually delivered or cancelled, also when
\* more reminders are pending than a batch takes.
C31_ElapsedReminderServed ==
    \A r \in 1..MaxReminders : PendingElapsed(r) ~> DeliveredOrCancelled(r)

\* With batch size 1 and two pending reminders whose chat_at has elapsed,
\* a tick took and delivered one; a later tick has taken the other one.
C31_Witness ==
    /\ maxConcurrentTasks = 1
    /\ Len(reminderRows) = 2
    /\ reminderRows[1].State = ReminderStateDelivered
    /\ PendingElapsed(2)
    /\ remPc = "loop" /\ remIdx = 1 /\ Len(remBatch) = 1 /\ remBatch[1].ID = 2
====
